---------------------------- MODULE Spec2Model ----------------------------
(***************************************************************************)
(* go-observability: a gateway (service-a, POST /city-by-zipcode) that     *)
(* validates a postal code and calls a resolver (service-b,                *)
(* GET /city-weather), which looks the code up at the postal-lookup API    *)
(* (viacep) and asks the weather API for the temperature of the locality.  *)
(* Both processes run the same main: signal -> cancel -> srv.Shutdown with *)
(* a 30 second grace period -> deferred tracer shutdown.                   *)
(*                                                                         *)
(* One end-to-end request is in the system at a time (handlers share no    *)
(* state); a handler is split at the points where it blocks on an outbound *)
(* call.  Byte strings are sequences of chunks; a text chunk never holds a *)
(* line feed, which is a chunk of its own, so equal chunk sequences are    *)
(* equal byte strings.                                                     *)
(***************************************************************************)
EXTENDS Integers, Sequences, FiniteSets, TLC

VARIABLES
    \* Per service, main (service-a/cmd/main.go:82-132, service-b/cmd/main.go:
    \* 117-167): pc (serving: blocked in <-ctx.Done(); shutdown: inside
    \* srv.Shutdown; exited), sig (none, queued in sigChan, taken by the signal
    \* goroutine), ctxCancelled (main's ctx), listening, graceExpired
    \* (shutdownCtx ran out), tracer (running, or how shutdown(ctx) was called),
    \* exitCode.
    proc,
    \* The gateway's zipcodeHandler invocation (service-a/cmd/main.go:134-192):
    \* pc (idle, connecting: client.Do sent, waiting: the resolver is handling
    \* it, done, aborted: the process exited under it), the request body, msg,
    \* the ResponseWriter w, the seconds the outbound call has been pending,
    \* r.Context()'s cancellation, and whether the response was delivered.
    gw,
    \* The resolver's cityWeatherHandler invocation (service-b/cmd/main.go:
    \* 282-320): pc (idle, viacep: getViaCep's call pending, weather:
    \* getWeather's call pending, done, aborted), who called, the zipcode
    \* parameter, w, the calls made and the answers got, cityName.
    rs

vars == <<proc, gw, rs>>

\* ------------------------------------------------------------- bounds
\* Longest all-digit postal code the client tries.
MaxZipLen == 9
\* Seconds an outbound call is followed for while it stays pending.
MaxElapsed == 6

\* ---------------------------------------------------- program constants
StatusOK == 200
StatusBadRequest == 400
StatusNotFound == 404
StatusUnprocessableEntity == 422
StatusInternalServerError == 500
\* srv.WriteTimeout, in seconds
WriteTimeout == 5
\* the {8} of the regexp ^\d{8}$
ZipDigits == 8
\* Kelvin offset 273.15 and the 32 of Fahrenheit, in hundredths of a degree
KelvinOffset == 27315
FahrenheitOffset == 3200

Svc == {"a", "b"}

\* ------------------------------------------------------------ strings
\* A string the regexp or the URL parser looks into is a sequence of
\* characters; "LF" is the line feed character.
Digit == <<"0", "1", "2", "3", "4", "5", "6", "7", "8", "9">>
DigitChars == {Digit[i] : i \in 1..10}
CtlChars == {"LF"}

Dig(n) == [i \in 1..n |-> Digit[(i % 10) + 1]]

\* What a client may send as a postal code: the empty string, all-digit codes
\* of seven to MaxZipLen digits, eight characters with a letter in them, and
\* eight digits followed by a line feed.
ZipInputs ==
    {Dig(n) : n \in {0} \cup ((ZipDigits - 1)..MaxZipLen)}
        \cup {[Dig(ZipDigits) EXCEPT ![i] = "a"] : i \in {1, ZipDigits}}
        \cup {Dig(ZipDigits) \o <<"LF">>}

\* regexp ^\d{8}$ : from the start of the text, n digits, then the end of
\* the text (Go's $ without the m flag matches only at the very end).
RECURSIVE MatchDigitsFrom(_, _, _)
MatchDigitsFrom(s, i, n) ==
    IF n = 0 THEN i = Len(s) + 1
    ELSE /\ i <= Len(s)
         /\ s[i] \in DigitChars
         /\ MatchDigitsFrom(s, i + 1, n - 1)

MatchDigitsUnanchored(s) ==
    \E i \in 1..Len(s) : \E j \in i..(Len(s) + 1) :
        MatchDigitsFrom(SubSeq(s, i, j - 1), 1, ZipDigits)

zipCodeRegex(s) == MatchDigitsFrom(s, 1, ZipDigits)

\* net/url rejects a URL that holds an ASCII control character.
urlParses(s) == \A i \in 1..Len(s) : s[i] \notin CtlChars

\* ------------------------------------------------------ response bodies
NoReport == [temp_C |-> 0, temp_F |-> 0, temp_K |-> 0, city |-> ""]
Txt(s) == [k |-> "txt", txt |-> s, rep |-> NoReport]
NL == [k |-> "nl", txt |-> "", rep |-> NoReport]
Json(r) == [k |-> "json", txt |-> "", rep |-> r]

\* http.ResponseWriter: the first WriteHeader sets the status, a later one is
\* ignored; a Write before any WriteHeader implies 200.
NewW == [status |-> 0, body |-> <<>>, headerCalls |-> 0]

WriteHeader(w, code) ==
    [w EXCEPT !.status = IF @ = 0 THEN code ELSE @, !.headerCalls = @ + 1]

Write(w, chunks) ==
    [w EXCEPT !.status = IF @ = 0 THEN StatusOK ELSE @,
              !.body = @ \o chunks]

\* http.Error: WriteHeader(code), then Fprintln(w, msg): msg and a line feed.
HttpError(w, msg, code) == Write(WriteHeader(w, code), msg \o <<NL>>)

\* json.NewEncoder(w).Encode(v): the document and a line feed.
EncodeReport(w, r) == Write(w, <<Json(r), NL>>)

\* ------------------------------------------------------ gateway request
\* The body of POST /city-by-zipcode: nothing at all, bytes that are no JSON,
\* or an object whose "cep" is absent, a string or a number.
ReqBodies ==
    {[kind |-> "eof", cepT |-> "absent", cep |-> <<>>],
     [kind |-> "garbage", cepT |-> "absent", cep |-> <<>>],
     [kind |-> "object", cepT |-> "absent", cep |-> <<>>],
     [kind |-> "object", cepT |-> "number", cep |-> <<>>]}
        \cup {[kind |-> "object", cepT |-> "string", cep |-> z] : z \in ZipInputs}

\* json.NewDecoder(r.Body).Decode(&msg) into Message{ZipCode string `json:"cep"`}
DecodeMessage(b) ==
    IF b.kind # "object" THEN [err |-> TRUE, ZipCode |-> <<>>]
    ELSE IF b.cepT = "number" THEN [err |-> TRUE, ZipCode |-> <<>>]
    ELSE IF b.cepT = "string" THEN [err |-> FALSE, ZipCode |-> b.cep]
    ELSE [err |-> FALSE, ZipCode |-> <<>>]

\* ------------------------------------------------------ upstream answers
NoAnswer ==
    [got |-> FALSE, err |-> FALSE, status |-> 0, kind |-> "none",
     erro |-> "absent", locT |-> "absent", loc |-> "", tempT |-> "absent", temp |-> 0]

Cities == {"Sao Paulo"}
\* current.temp_c in hundredths of a degree
Temps == {0, 2500, -4000}

\* What http.DefaultClient.Do can give for GET viacep.com.br/ws/<zip>/json/
ViaCepAnswers ==
    {[NoAnswer EXCEPT !.got = TRUE, !.err = TRUE]}
        \cup {[NoAnswer EXCEPT !.got = TRUE, !.status = s, !.kind = "garbage"] :
                s \in {StatusBadRequest, StatusInternalServerError}}
        \cup {[NoAnswer EXCEPT !.got = TRUE, !.status = StatusOK, !.kind = k] :
                k \in {"readerr", "garbage"}}
        \cup {[NoAnswer EXCEPT !.got = TRUE, !.status = StatusOK, !.kind = "object",
                               !.erro = e, !.locT = l[1], !.loc = l[2]] :
                e \in {"absent", "true", "false", "string"},
                l \in {<<"absent", "">>, <<"number", "">>, <<"string", "">>}
                        \cup {<<"string", c>> : c \in Cities}}

\* What http.DefaultClient.Do can give for GET api.weatherapi.com/v1/current.json
WeatherAnswers ==
    {[NoAnswer EXCEPT !.got = TRUE, !.err = TRUE]}
        \cup {[NoAnswer EXCEPT !.got = TRUE, !.status = s, !.kind = "garbage"] :
                s \in {StatusBadRequest, StatusInternalServerError}}
        \cup {[NoAnswer EXCEPT !.got = TRUE, !.status = StatusOK, !.kind = "garbage"]}
        \cup {[NoAnswer EXCEPT !.got = TRUE, !.status = StatusOK, !.kind = "object",
                               !.tempT = t] : t \in {"absent", "string"}}
        \cup {[NoAnswer EXCEPT !.got = TRUE, !.status = StatusOK, !.kind = "object",
                               !.tempT = "number", !.temp = c] : c \in Temps}

\* json.Unmarshal(bodyBytes, &viaCepErrorResponse), ViaCepError{Erro bool}
UnmarshalViaCepError(a) ==
    IF a.kind # "object" \/ a.erro = "string" THEN [err |-> TRUE, Erro |-> FALSE]
    ELSE [err |-> FALSE, Erro |-> (a.erro = "true")]

\* json.Unmarshal(bodyBytes, &viaCepResponse), ViaCep{Localidade string ...}
UnmarshalViaCep(a) ==
    IF a.kind # "object" \/ a.locT = "number" THEN [err |-> TRUE, Localidade |-> ""]
    ELSE [err |-> FALSE, Localidade |-> (IF a.locT = "string" THEN a.loc ELSE "")]

\* json.NewDecoder(res.Body).Decode(&response), Weather{Current{TempC float64}}
DecodeWeather(a) ==
    IF a.kind # "object" \/ a.tempT = "string" THEN [err |-> TRUE, TempC |-> 0]
    ELSE [err |-> FALSE, TempC |-> (IF a.tempT = "number" THEN a.temp ELSE 0)]

\* --------------------------------------------------------------- tracing
\* The traceparent header of a request, as propagation.TraceContext reads and
\* writes it: absent, present but not of the form version-traceid-spanid-flags,
\* or well formed and naming a trace.
NoHeader == [fmt |-> "absent", trace |-> ""]
TraceHeaders ==
    {NoHeader, [fmt |-> "malformed", trace |-> "t-client"],
     [fmt |-> "w3c", trace |-> "t-client"]}

\* propagator.Extract(ctx, carrier): the trace id of the remote span context
\* put into ctx, "" when the header yields no valid one.
Extract(h) == IF h.fmt = "w3c" THEN h.trace ELSE ""

\* The SDK's id generator makes a new trace id for a span without a parent.
NewTraceID(s) == IF s = "a" THEN "t-gw" ELSE "t-rs"

\* A span: not started, open or ended; whether an error was recorded on it;
\* the trace it belongs to.
NoSpan == [state |-> "none", err |-> FALSE, trace |-> ""]

\* tracer.Start(ctx, name) in service s: a child of the span context in ctx,
\* or the root of a new trace when ctx holds none.
tracerStart(parentTrace, s) ==
    [state |-> "open", err |-> FALSE,
     trace |-> IF parentTrace # "" THEN parentTrace ELSE NewTraceID(s)]

\* span.RecordError(err) with err non-nil: an event on a span still recording.
RecordError(sp) == IF sp.state = "open" THEN [sp EXCEPT !.err = TRUE] ELSE sp

\* span.End()
spanEnd(sp) == IF sp.state = "open" THEN [sp EXCEPT !.state = "ended"] ELSE sp

\* An outbound request that carries no trace context.
InjectNothing(sp) == NoHeader

\* propagator.Inject(ctx, carrier) where ctx holds span sp: writes the
\* traceparent of sp's span context when that is valid.
Inject(sp) ==
    IF sp.state # "none" /\ sp.trace # "" THEN [fmt |-> "w3c", trace |-> sp.trace]
    ELSE NoHeader

\* ------------------------------------------------------ handler records
GwIdle ==
    [pc |-> "idle", body |-> [kind |-> "eof", cepT |-> "absent", cep |-> <<>>],
     ZipCode |-> <<>>, w |-> NewW, calls |-> 0, elapsed |-> 0,
     ctxCancelled |-> FALSE, atSig |-> FALSE, atShutdown |-> FALSE,
     respRead |-> "none", delivered |-> FALSE,
     traceparent |-> NoHeader, span |-> NoSpan, citySpan |-> NoSpan,
     outHeader |-> NoHeader]

RsIdle ==
    [pc |-> "idle", from |-> "client", present |-> FALSE, zipcode |-> <<>>,
     w |-> NewW, viaCalls |-> 0, weaCalls |-> 0, elapsed |-> 0,
     via |-> NoAnswer, wea |-> NoAnswer, cityName |-> "",
     ctxCancelled |-> FALSE, atSig |-> FALSE, atShutdown |-> FALSE,
     age |-> 0, delivered |-> FALSE,
     traceparent |-> NoHeader, span |-> NoSpan, viaSpan |-> NoSpan,
     weaSpan |-> NoSpan]

ProcInit ==
    [pc |-> "serving", sig |-> "none", ctxCancelled |-> FALSE, listening |-> TRUE,
     graceExpired |-> FALSE, tracer |-> "running", exitCode |-> 0]

GwInFlight == gw.pc \in {"connecting", "waiting"}
RsInFlight == rs.pc \in {"viacep", "weather"}
InFlight(s) == IF s = "a" THEN GwInFlight ELSE RsInFlight
SystemIdle == ~GwInFlight /\ ~RsInFlight

Init ==
    /\ proc = [s \in Svc |-> ProcInit]
    /\ gw = GwIdle
    /\ rs = RsIdle

\* The server sets the connection's write deadline WriteTimeout after it has
\* read the request header; the response is flushed when the handler returns,
\* and reaches the caller if the deadline has not passed and the caller is
\* still there.
responseDelivered(age, callerGone) == age < WriteTimeout /\ ~callerGone

\* ------------------------------------------------------------- gateway
\* zipcodeHandler with defer span.End() alone.
zipcodeHandlerExitSpanOnly(g) == [g EXCEPT !.span = spanEnd(@)]

\* The deferred calls of zipcodeHandler, run when it returns: citySpan.End()
\* when the handler got as far as starting citySpan, then span.End().
zipcodeHandlerExit(g) ==
    [g EXCEPT !.citySpan = spanEnd(@), !.span = spanEnd(@)]

\* zipcodeHandler from its entry to the point where client.Do blocks: decode
\* the body, match the postal code, build and send the outbound request.
zipcodeHandler(body, traceparent) ==
    /\ SystemIdle
    /\ proc["a"].listening
    /\ LET d == DecodeMessage(body)
           span == tracerStart(Extract(traceparent), "a")
           g0 == [GwIdle EXCEPT !.body = body, !.traceparent = traceparent,
                                !.span = span]
       IN  gw' = IF d.err
                 THEN zipcodeHandlerExit(
                      [g0 EXCEPT !.pc = "done",
                                 !.delivered = responseDelivered(0, FALSE),
                                 !.w = HttpError(NewW, <<Txt("decode error")>>,
                                                 StatusBadRequest),
                                 !.span = RecordError(@)])
                 ELSE IF ~zipCodeRegex(d.ZipCode)
                 THEN zipcodeHandlerExit(
                      [g0 EXCEPT !.pc = "done", !.ZipCode = d.ZipCode,
                                 !.delivered = responseDelivered(0, FALSE),
                                 !.w = HttpError(NewW, <<Txt("Invalid zipcode")>>,
                                                 StatusUnprocessableEntity),
                                 !.span = RecordError(@)])
                 ELSE [g0 EXCEPT !.pc = "connecting", !.ZipCode = d.ZipCode,
                                 !.calls = 1,
                                 !.citySpan = tracerStart(span.trace, "a"),
                                 !.outHeader = Inject(span)]
    /\ rs' = RsIdle
    /\ UNCHANGED proc

\* client.Do returns an error (connection refused, reset, context cancelled):
\* makeHTTPRequestWithPropagation returns it and the handler answers 500.  The
\* connection to the resolver is gone, which cancels the resolver's r.Context().
zipcodeHandlerCallFailed ==
    /\ GwInFlight
    /\ gw' = zipcodeHandlerExit(
             [gw EXCEPT !.pc = "done", !.elapsed = 0,
                        !.delivered = responseDelivered(gw.elapsed, gw.ctxCancelled),
                        !.w = HttpError(gw.w, <<Txt("transport error")>>,
                                        StatusInternalServerError),
                        !.span = RecordError(@)])
    /\ rs' = IF rs.from = "gateway" /\ RsInFlight
             THEN [rs EXCEPT !.ctxCancelled = TRUE] ELSE rs
    /\ UNCHANGED proc

\* json.NewDecoder(resp.Body).Decode(&cityWeatherResponse)
DecodeReport(body, readOk) ==
    IF readOk /\ Len(body) >= 1 /\ body[1].k = "json"
    THEN [err |-> FALSE, v |-> body[1].rep]
    ELSE [err |-> TRUE, v |-> NoReport]

\* What zipcodeHandler writes once client.Do has returned resp.
relayResponse(w, resp, readOk) ==
    IF resp.status # StatusOK
    THEN IF ~readOk
         THEN HttpError(w, <<Txt("Failed to read response body")>>,
                        StatusInternalServerError)
         ELSE HttpError(w, resp.body, resp.status)
    ELSE LET d == DecodeReport(resp.body, readOk)
         IN  IF d.err
             THEN HttpError(w, <<Txt("decode error")>>, StatusInternalServerError)
             ELSE EncodeReport(WriteHeader(w, StatusOK), d.v)

\* Whether zipcodeHandler, once client.Do has returned resp, takes one of the
\* branches that call span.RecordError.
relayRecordsError(resp, readOk) ==
    IF resp.status # StatusOK THEN TRUE
    ELSE DecodeReport(resp.body, readOk).err

\* zipcodeHandler from the return of client.Do to its end.
zipcodeHandlerReturn(readOk) ==
    /\ gw.pc = "waiting"
    /\ rs.pc = "done"
    /\ rs.from = "gateway"
    /\ rs.delivered
    /\ gw' = zipcodeHandlerExit(
             [gw EXCEPT !.pc = "done", !.elapsed = 0,
                        !.delivered = responseDelivered(gw.elapsed, gw.ctxCancelled),
                        !.respRead = IF readOk THEN "ok" ELSE "readerr",
                        !.w = relayResponse(gw.w, rs.w, readOk),
                        !.span = IF relayRecordsError(rs.w, readOk)
                                 THEN RecordError(@) ELSE @])
    /\ UNCHANGED <<proc, rs>>

\* ------------------------------------------------------------ resolver
\* validParams
validParams(present, zipcode) == present /\ zipcode # <<>>

\* The deferred span.End() of cityWeatherHandler, run when it returns.
cityWeatherHandlerExit(r) == [r EXCEPT !.span = spanEnd(@)]

\* The span getViaCep and getWeather start: they Extract from r.Header into
\* the ctx handed down by cityWeatherHandler, which replaces the handler's
\* span in ctx by the remote one when the header holds a valid context.
getViaCepSpan(traceparent, span) ==
    tracerStart(IF Extract(traceparent) # "" THEN Extract(traceparent)
                ELSE span.trace, "b")

\* cityWeatherHandler from its entry to the point where getViaCep blocks in
\* http.DefaultClient.Do.
cityWeatherHandler(from, present, zipcode, traceparent) ==
    /\ proc["b"].listening
    /\ \/ from = "gateway" /\ gw.pc = "connecting" /\ rs.pc = "idle"
          /\ present /\ zipcode = gw.ZipCode /\ traceparent = gw.outHeader
       \/ from = "client" /\ SystemIdle
    /\ LET span == tracerStart(Extract(traceparent), "b")
           r0 == [RsIdle EXCEPT !.from = from, !.present = present,
                                !.zipcode = zipcode, !.traceparent = traceparent,
                                !.span = span]
           viaSpan == getViaCepSpan(traceparent, span)
       IN  rs' = IF ~validParams(present, zipcode)
                 THEN cityWeatherHandlerExit(
                      [r0 EXCEPT !.pc = "done",
                                 !.delivered = responseDelivered(0, FALSE),
                                 !.w = HttpError(NewW, <<Txt("Missing 'zipcode' parameter")>>,
                                                 StatusBadRequest),
                                 !.span = RecordError(@)])
                 ELSE IF ~urlParses(zipcode)
                 THEN cityWeatherHandlerExit(
                      [r0 EXCEPT !.pc = "done",
                                 !.delivered = responseDelivered(0, FALSE),
                                 !.w = HttpError(NewW, <<Txt("Failed to create request (viacep)")>>,
                                                 StatusInternalServerError),
                                 !.viaSpan = spanEnd(RecordError(viaSpan)),
                                 !.span = RecordError(@)])
                 ELSE [r0 EXCEPT !.pc = "viacep", !.viaCalls = 1,
                                 !.viaSpan = viaSpan]
    /\ gw' = IF from = "gateway" THEN [gw EXCEPT !.pc = "waiting"] ELSE GwIdle
    /\ UNCHANGED proc

\* getViaCep from the return of http.DefaultClient.Do: what it writes, and
\* whether it returns nil.
getViaCep(w, a) ==
    LET e  == UnmarshalViaCepError(a)
        v  == UnmarshalViaCep(a)
        no(msg, code) == [nil |-> TRUE, w |-> HttpError(w, <<Txt(msg)>>, code),
                          Localidade |-> "", recorded |-> TRUE]
    IN  IF a.err THEN no("Failed to make HTTP request (viacep)", StatusInternalServerError)
        ELSE IF a.status # StatusOK THEN no("Invalid zipcode", StatusUnprocessableEntity)
        ELSE IF a.kind = "readerr"
             THEN no("Failed to read response body", StatusInternalServerError)
        ELSE IF e.err THEN no("Failed to decode response (viacep)", StatusInternalServerError)
        ELSE IF e.Erro THEN no("Cannot find zipcode", StatusNotFound)
        ELSE IF v.err THEN no("Failed to decode response (viacep)", StatusInternalServerError)
        ELSE IF v.Localidade = "" THEN no("Invalid zipcode", StatusUnprocessableEntity)
        ELSE [nil |-> FALSE, w |-> w, Localidade |-> v.Localidade,
              recorded |-> FALSE]

\* cityWeatherHandler from the return of getViaCep's call to the point where
\* getWeather blocks in http.DefaultClient.Do.
getViaCepReturn(a) ==
    /\ rs.pc = "viacep"
    /\ LET r == getViaCep(rs.w, a)
           viaSpan == spanEnd(IF r.recorded THEN RecordError(rs.viaSpan)
                              ELSE rs.viaSpan)
       IN  rs' = IF r.nil
                 THEN cityWeatherHandlerExit(
                      [rs EXCEPT !.pc = "done", !.via = a, !.w = r.w, !.elapsed = 0,
                                 !.age = 0,
                                 !.delivered = responseDelivered(rs.age, rs.ctxCancelled),
                                 !.viaSpan = viaSpan,
                                 !.span = RecordError(@)])
                 ELSE [rs EXCEPT !.pc = "weather", !.via = a, !.elapsed = 0,
                                 !.cityName = r.Localidade, !.weaCalls = @ + 1,
                                 !.viaSpan = viaSpan,
                                 !.weaSpan = getViaCepSpan(rs.traceparent, rs.span)]
    /\ UNCHANGED <<proc, gw>>

\* getWeather from the return of http.DefaultClient.Do.
getWeather(w, a) ==
    LET d == DecodeWeather(a)
        no(msg, code) == [nil |-> TRUE, w |-> HttpError(w, <<Txt(msg)>>, code),
                          TempC |-> 0, recorded |-> TRUE]
    IN  IF a.err THEN no("Failed to make HTTP request (weather)", StatusInternalServerError)
        ELSE IF a.status # StatusOK THEN no("Invalid zipcode", StatusUnprocessableEntity)
        ELSE IF d.err THEN no("Failed to decode response (weather)", StatusInternalServerError)
        ELSE [nil |-> FALSE, w |-> w, TempC |-> d.TempC, recorded |-> FALSE]

\* The conversion with the ratio 9/5 taken in integers first.
temperatureWithCityIntRatio(TempC, cityName) ==
    [temp_C |-> TempC,
     temp_F |-> (TempC * (9 \div 5)) + FahrenheitOffset,
     temp_K |-> TempC + KelvinOffset,
     city |-> cityName]

\* TemperatureWithCity{...}: temperatures in hundredths of a degree.
temperatureWithCity(TempC, cityName) ==
    [temp_C |-> TempC,
     temp_F |-> ((TempC * 9) \div 5) + FahrenheitOffset,
     temp_K |-> TempC + KelvinOffset,
     city |-> cityName]

\* cityWeatherHandler without the return that follows a nil from getWeather:
\* it goes on to encode a report after the error has been written.
getWeatherReturnNoNilCheck(a) ==
    /\ rs.pc = "weather"
    /\ LET r == getWeather(rs.w, a)
       IN  rs' = cityWeatherHandlerExit(
                      [rs EXCEPT !.pc = "done", !.wea = a, !.elapsed = 0,
                                 !.age = 0,
                                 !.delivered = responseDelivered(rs.age, rs.ctxCancelled),
                                 !.weaSpan = spanEnd(IF r.recorded
                                                     THEN RecordError(rs.weaSpan)
                                                     ELSE rs.weaSpan),
                                 !.span = IF r.nil THEN RecordError(@) ELSE @,
                                 !.w = EncodeReport(r.w,
                                         temperatureWithCity(r.TempC, rs.cityName))])
    /\ UNCHANGED <<proc, gw>>

\* cityWeatherHandler from the return of getWeather's call to its end.
getWeatherReturn(a) ==
    /\ rs.pc = "weather"
    /\ LET r == getWeather(rs.w, a)
           weaSpan == spanEnd(IF r.recorded THEN RecordError(rs.weaSpan)
                              ELSE rs.weaSpan)
       IN  rs' = IF r.nil
                 THEN cityWeatherHandlerExit(
                      [rs EXCEPT !.pc = "done", !.wea = a, !.w = r.w, !.elapsed = 0,
                                 !.age = 0,
                                 !.delivered = responseDelivered(rs.age, rs.ctxCancelled),
                                 !.weaSpan = weaSpan,
                                 !.span = RecordError(@)])
                 ELSE cityWeatherHandlerExit(
                      [rs EXCEPT !.pc = "done", !.wea = a, !.elapsed = 0,
                                 !.age = 0,
                                 !.delivered = responseDelivered(rs.age, rs.ctxCancelled),
                                 !.weaSpan = weaSpan,
                                 !.w = EncodeReport(rs.w,
                                         temperatureWithCity(r.TempC, rs.cityName))])
    /\ UNCHANGED <<proc, gw>>

\* ------------------------------------------------- time and cancellation
\* A cancelled context, a refused connection and a closed connection are
\* noticed before a second passes.
Urgent ==
    \/ GwInFlight /\ gw.ctxCancelled
    \/ RsInFlight /\ rs.ctxCancelled
    \/ gw.pc = "connecting" /\ ~proc["b"].listening
    \/ gw.pc = "waiting" /\ rs.pc \in {"done", "aborted"}

\* The context an outbound call runs under: derived from r.Context() by
\* Extract and tracer.Start, which add no deadline.  A deadline of 0 is none.
outboundDeadline == 0

TimedOut(elapsed) == outboundDeadline # 0 /\ elapsed >= outboundDeadline

Capped(n) == IF n < MaxElapsed THEN n + 1 ELSE n

\* One second passes while an outbound call is pending.  The gateway makes
\* its one call as soon as it has read the request, so the call's elapsed
\* time is also the handler's age; the resolver makes two calls in a row.
Tick ==
    /\ ~Urgent
    /\ ~(GwInFlight /\ TimedOut(gw.elapsed))
    /\ ~(RsInFlight /\ TimedOut(rs.elapsed))
    /\ \/ GwInFlight /\ gw.elapsed < MaxElapsed
       \/ RsInFlight /\ rs.age < MaxElapsed
    /\ gw' = IF GwInFlight THEN [gw EXCEPT !.elapsed = Capped(@)] ELSE gw
    /\ rs' = IF RsInFlight
             THEN [rs EXCEPT !.elapsed = Capped(@), !.age = Capped(@)] ELSE rs
    /\ UNCHANGED proc

\* The caller of the outermost handler goes away: its r.Context() is cancelled.
ClientCancel ==
    /\ \/ /\ GwInFlight /\ ~gw.ctxCancelled
          /\ gw' = [gw EXCEPT !.ctxCancelled = TRUE]
          /\ rs' = rs
       \/ /\ RsInFlight /\ rs.from = "client" /\ ~rs.ctxCancelled
          /\ rs' = [rs EXCEPT !.ctxCancelled = TRUE]
          /\ gw' = gw
    /\ UNCHANGED proc

\* ---------------------------------------------------------------- main
\* SIGINT or SIGTERM is delivered: signal.Notify puts it into sigChan.
Signal(s) ==
    /\ proc[s].pc # "exited"
    /\ proc[s].sig = "none"
    /\ proc' = [proc EXCEPT ![s].sig = "queued"]
    /\ gw' = IF s = "a" /\ GwInFlight THEN [gw EXCEPT !.atSig = TRUE] ELSE gw
    /\ rs' = IF s = "b" /\ RsInFlight THEN [rs EXCEPT !.atSig = TRUE] ELSE rs

\* go func() { <-sigChan; log.Println(...); cancel() }()
signalGoroutine(s) ==
    /\ proc[s].pc # "exited"
    /\ proc[s].sig = "queued"
    /\ proc' = [proc EXCEPT ![s].sig = "taken", ![s].ctxCancelled = TRUE]
    /\ UNCHANGED <<gw, rs>>

\* srv.Close in place of srv.Shutdown: returns without waiting.
srvCloseMayReturn(s) == TRUE

\* srv.Shutdown returns nil once no connection is active.
srvShutdownMayReturn(s) == ~InFlight(s)

\* srv.Shutdown closes the listeners first.
srvShutdownBegin(p) == [p EXCEPT !.pc = "shutdown", !.listening = FALSE]

\* main wakes from <-ctx.Done(), makes shutdownCtx and calls srv.Shutdown.
mainShutdown(s) ==
    /\ proc[s].pc = "serving"
    /\ proc[s].ctxCancelled
    /\ proc' = [proc EXCEPT ![s] = srvShutdownBegin(@)]
    /\ gw' = IF s = "a" /\ GwInFlight THEN [gw EXCEPT !.atShutdown = TRUE] ELSE gw
    /\ rs' = IF s = "b" /\ RsInFlight THEN [rs EXCEPT !.atShutdown = TRUE] ELSE rs

\* The process is gone: its handler goroutine dies with it, and the
\* connection it held to the resolver is closed.
KillGw == IF GwInFlight THEN [gw EXCEPT !.pc = "aborted", !.elapsed = 0] ELSE gw
KillRs ==
    IF RsInFlight THEN [rs EXCEPT !.pc = "aborted", !.elapsed = 0, !.age = 0] ELSE rs

ProcessExit(s) ==
    /\ gw' = IF s = "a" THEN KillGw ELSE gw
    /\ rs' = IF s = "b" THEN KillRs
             ELSE IF GwInFlight /\ RsInFlight /\ rs.from = "gateway"
                  THEN [rs EXCEPT !.ctxCancelled = TRUE] ELSE rs

\* The deferred shutdown(ctx) of the tracer provider, handed main's ctx.
tracerShutdown(p) ==
    [p EXCEPT !.tracer = IF p.ctxCancelled THEN "shutdownCancelled"
                         ELSE "shutdownLive"]

\* srv.Shutdown returns nil; main logs and returns, running its deferred
\* calls: cancelShutdown, the tracer's shutdown(ctx) (log.Fatalf when it
\* fails), cancel.
mainShutdownReturns(s, tracerErr) ==
    /\ proc[s].pc = "shutdown"
    /\ srvShutdownMayReturn(s)
    /\ proc' = [proc EXCEPT ![s] = [tracerShutdown(@) EXCEPT
                                        !.pc = "exited",
                                        !.exitCode = IF tracerErr THEN 1 ELSE 0]]
    /\ ProcessExit(s)

\* shutdownCtx's 30 seconds pass with a request still active: srv.Shutdown
\* returns the context's error and log.Fatalf exits; no deferred call runs.
mainShutdownTimeout(s) ==
    /\ proc[s].pc = "shutdown"
    /\ InFlight(s)
    /\ proc' = [proc EXCEPT ![s].pc = "exited", ![s].graceExpired = TRUE,
                            ![s].exitCode = 1]
    /\ ProcessExit(s)

\* ------------------------------------------------------- specification
Next ==
    \/ \E body \in ReqBodies : zipcodeHandler(body, NoHeader)
    \/ zipcodeHandlerCallFailed
    \/ \E readOk \in BOOLEAN : zipcodeHandlerReturn(readOk)
    \/ \E z \in ZipInputs : \E h \in {gw.outHeader} :
            cityWeatherHandler("gateway", TRUE, z, h)
    \/ \E present \in BOOLEAN : \E z \in ZipInputs :
            (present \/ z = <<>>) /\ cityWeatherHandler("client", present, z, NoHeader)
    \/ \E a \in ViaCepAnswers : getViaCepReturn(a)
    \/ \E a \in WeatherAnswers : getWeatherReturn(a)
    \/ Tick
    \/ ClientCancel
    \/ \E s \in Svc : Signal(s)
    \/ \E s \in Svc : signalGoroutine(s)
    \/ \E s \in Svc : mainShutdown(s)
    \/ \E s \in Svc : \E e \in BOOLEAN : mainShutdownReturns(s, e)
    \/ \E s \in Svc : mainShutdownTimeout(s)

Spec == Init /\ [][Next]_vars

\* The requests alone, both processes serving, with every kind of traceparent
\* header a caller may send.
NextTrace ==
    \/ \E body \in ReqBodies : \E h \in TraceHeaders : zipcodeHandler(body, h)
    \/ zipcodeHandlerCallFailed
    \/ \E readOk \in BOOLEAN : zipcodeHandlerReturn(readOk)
    \/ \E z \in ZipInputs : \E h \in {gw.outHeader} :
            cityWeatherHandler("gateway", TRUE, z, h)
    \/ \E present \in BOOLEAN : \E z \in ZipInputs : \E h \in TraceHeaders :
            (present \/ z = <<>>) /\ cityWeatherHandler("client", present, z, h)
    \/ \E a \in ViaCepAnswers : getViaCepReturn(a)
    \/ \E a \in WeatherAnswers : getWeatherReturn(a)

SpecTrace == Init /\ [][NextTrace]_vars


\* ---------------------------------------------------------------- claims
Handler(s) == IF s = "a" THEN gw ELSE rs

\* Exactly eight ASCII digits.
EightDigits(z) == Len(z) = 8 /\ \A i \in 1..Len(z) : z[i] \in DigitChars

\* The request body is JSON that Message accepts, and the postal code in it.
BodyDecodes(b) == b.kind = "object" /\ b.cepT \in {"absent", "string"}
PostalCodeOf(b) == IF b.cepT = "string" THEN b.cep ELSE <<>>

\* C1: a gateway request whose body decodes and whose postal code is not
\* exactly eight digits is answered 422, and no outbound request to the
\* resolver is issued for it.
C1_InvalidZipGateway ==
    (gw.pc # "idle" /\ BodyDecodes(gw.body) /\ ~EightDigits(PostalCodeOf(gw.body)))
        => /\ gw.pc = "done"
           /\ gw.w.status = 422
           /\ gw.calls = 0
           /\ rs.pc = "idle"

C1_Witness ==
    /\ gw.pc = "done"
    /\ gw.body.cepT = "string"
    /\ Len(gw.body.cep) = 9
    /\ \A i \in 1..9 : gw.body.cep[i] \in DigitChars
    /\ gw.w.status = 422
    /\ gw.calls = 0

\* C2: a resolver request whose zipcode parameter is present (and not empty)
\* but is not exactly eight digits is answered 422, and neither the
\* postal-lookup API nor the weather API is called.
C2_InvalidZipResolver ==
    (rs.pc # "idle" /\ rs.present /\ rs.zipcode # <<>> /\ ~EightDigits(rs.zipcode))
        => /\ rs.viaCalls = 0
           /\ rs.weaCalls = 0
           /\ rs.pc = "done"
           /\ rs.w.status = 422

\* C3: a gateway request whose body cannot be parsed, or whose body omits the
\* postal code field, is answered 400.
C3_MalformedBody400 ==
    (gw.pc = "done" /\ (gw.body.kind \in {"eof", "garbage"}
                            \/ (gw.body.kind = "object" /\ gw.body.cepT = "absent")))
        => gw.w.status = 400

\* C4: when the postal-lookup API answers OK with erro true or with an empty
\* localidade, the resolver answers 422 and never calls the weather API.
C4_NotFound422 ==
    (/\ rs.via.got /\ ~rs.via.err /\ rs.via.status = 200 /\ rs.via.kind = "object"
     /\ rs.via.locT # "number"
     /\ \/ rs.via.erro = "true"
        \/ rs.via.erro \in {"absent", "false"}
              /\ (rs.via.locT = "absent" \/ rs.via.loc = ""))
        => /\ rs.pc = "done"
           /\ rs.w.status = 422
           /\ rs.weaCalls = 0

\* C5: when the resolver returns a non-success status S with body B, the
\* gateway answers with status S and a body equal to B byte for byte.
C5_RelayVerbatim ==
    (/\ gw.pc = "done" /\ gw.respRead = "ok"
     /\ rs.from = "gateway" /\ rs.pc = "done" /\ rs.w.status # 200)
        => /\ gw.w.status = rs.w.status
           /\ gw.w.body = rs.w.body

\* C6: a transport failure or a non-OK status from either external API makes
\* the resolver answer 500.
C6_UpstreamFailure500 ==
    (/\ rs.pc = "done"
     /\ \/ rs.via.got /\ (rs.via.err \/ rs.via.status # 200)
        \/ rs.wea.got /\ (rs.wea.err \/ rs.wea.status # 200))
        => rs.w.status = 500

\* C7: every response of the gateway has status 200, 400, 422 or 5xx; a
\* well-formed postal code the postal-lookup API reports as not found gives
\* 422 at the gateway.
C7_GatewayStatuses ==
    /\ gw.pc = "done" => (gw.w.status \in {200, 400, 422}
                            \/ (gw.w.status >= 500 /\ gw.w.status <= 599))
    /\ (/\ gw.pc = "done" /\ gw.respRead = "ok" /\ rs.from = "gateway"
        /\ rs.via.got /\ ~rs.via.err /\ rs.via.status = 200
        /\ rs.via.kind = "object" /\ rs.via.erro = "true")
            => gw.w.status = 422

\* A step in which service s accepts a new request.
AcceptStep(s) ==
    IF s = "a"
    THEN gw.pc \notin {"connecting", "waiting"} /\ gw'.pc \in {"connecting", "done"}
            /\ gw' # gw
    ELSE rs.pc \notin {"viacep", "weather"} /\ rs'.pc \in {"viacep", "done"}
            /\ rs' # rs

\* C8 as stated: from the moment the signal arrives the server accepts no new
\* connection; a request in flight when the signal arrived receives its
\* complete response unless the grace period runs out, and the process does
\* not exit before that.
C8_AsStated ==
    /\ [](\A s \in Svc :
            (proc[s].pc = "exited" /\ Handler(s).atSig)
                => \/ Handler(s).pc = "done" /\ Handler(s).delivered
                   \/ proc[s].graceExpired)
    /\ [][\A s \in Svc : proc[s].sig # "none" => ~AcceptStep(s)]_vars

\* C8 amended: once main has called srv.Shutdown the server accepts no new
\* connection; the handler of a request in flight at that point runs to its
\* end and writes its whole response unless the grace period runs out, and
\* the process does not exit with a handler still running before the grace
\* period has run out.
C8_GracefulShutdown ==
    /\ [](\A s \in Svc :
            /\ Handler(s).pc = "aborted" => proc[s].graceExpired
            /\ (proc[s].pc = "exited" /\ ~proc[s].graceExpired /\ Handler(s).atShutdown)
                    => (Handler(s).pc = "done" /\ Handler(s).w.status # 0
                            /\ Handler(s).w.body # <<>>))
    /\ [][\A s \in Svc : proc[s].pc # "serving" => ~AcceptStep(s)]_vars

C8_Witness ==
    /\ proc["a"].pc = "exited"
    /\ ~proc["a"].graceExpired
    /\ gw.atSig
    /\ gw.atShutdown
    /\ gw.pc = "done"
    /\ gw.delivered
    /\ gw.w.status = 200

\* C9: on every exit that follows a shutdown signal the tracer's shutdown has
\* been performed, after srv.Shutdown returned, with a context that was not
\* already cancelled.
C9_TracerFlushedOnExit ==
    \A s \in Svc :
        (proc[s].pc = "exited" /\ proc[s].sig # "none")
            => proc[s].tracer = "shutdownLive"

\* C10: every outbound call runs under a 5 second timeout derived from the
\* inbound request, so none is still pending after more than 5 seconds, and
\* none is pending after its inbound request has ended.
C10_OutboundTimeout ==
    /\ GwInFlight => gw.elapsed <= 5
    /\ RsInFlight => rs.elapsed <= 5
    /\ (RsInFlight /\ rs.from = "gateway" /\ ~GwInFlight) => rs.ctxCancelled

\* C11: when the gateway's outbound call to the resolver fails at transport
\* level the gateway answers 500, and the gateway is never still blocked on
\* that call after more than the 5 seconds of the outbound timeout.
C11_GatewayNotBlocked ==
    /\ (gw.pc = "done" /\ gw.calls = 1 /\ gw.respRead = "none")
            => gw.w.status = 500
    /\ (gw.calls = 1 /\ gw.pc \in {"connecting", "waiting"}) => gw.elapsed <= 5

\* C12: when zipcodeHandler, cityWeatherHandler, getViaCep or getWeather has
\* returned, every span it started has been ended, and when it returned after
\* writing an error response an error has been recorded on its own span.
C12_SpansEndedErrorsRecorded ==
    /\ gw.pc = "done"
            => /\ gw.span.state = "ended"
               /\ gw.citySpan.state = (IF gw.calls = 1 THEN "ended" ELSE "none")
               /\ gw.w.status # 200 => gw.span.err
    /\ rs.pc = "done"
            => /\ rs.span.state = "ended"
               /\ rs.viaSpan.state \in {"none", "ended"}
               /\ rs.weaSpan.state \in {"none", "ended"}
               /\ rs.w.status # 200 => rs.span.err
               /\ (rs.w.status # 200 /\ rs.present /\ rs.zipcode # <<>>
                        /\ rs.weaCalls = 0)
                       => (rs.viaSpan.state = "ended" /\ rs.viaSpan.err)
               /\ (rs.w.status # 200 /\ rs.weaCalls = 1)
                       => (rs.weaSpan.state = "ended" /\ rs.weaSpan.err)
    /\ rs.pc = "weather" => (rs.viaSpan.state = "ended" /\ ~rs.viaSpan.err)

C12_Witness ==
    /\ gw.pc = "done"
    /\ gw.w.status = 422
    /\ gw.span.state = "ended"
    /\ gw.span.err
    /\ gw.citySpan.state = "ended"
    /\ rs.from = "gateway"
    /\ rs.weaCalls = 1
    /\ rs.weaSpan.state = "ended"
    /\ rs.weaSpan.err
    /\ rs.span.err

\* C13: for every gateway request that reaches the resolver, the trace
\* context the resolver extracts is the one of the gateway's zipcodeHandler
\* span, so the resolver's cityWeatherHandler span has the same trace id as
\* that span, and the same as the client's when the client sent a valid
\* trace context.
C13_TracePropagated ==
    (rs.from = "gateway" /\ rs.pc # "idle")
        => /\ gw.span.trace # ""
           /\ rs.traceparent.fmt = "w3c"
           /\ rs.traceparent.trace = gw.span.trace
           /\ rs.span.trace = gw.span.trace
           /\ (gw.traceparent.fmt = "w3c" /\ gw.traceparent.trace # "")
                   => rs.span.trace = gw.traceparent.trace

C13_Witness ==
    /\ rs.from = "gateway"
    /\ rs.pc = "done"
    /\ gw.pc = "done"
    /\ gw.traceparent = [fmt |-> "w3c", trace |-> "t-client"]
    /\ gw.span.trace = "t-client"
    /\ rs.span.trace = "t-client"

\* C14: on the resolver's success path the report has temp_C equal to the
\* weather API's current.temp_c, temp_F = temp_C * 9/5 + 32, temp_K = temp_C +
\* 273.15 and city equal to the postal lookup's localidade; 25.0 degrees give
\* 77.0 and 298.15.  Temperatures are in hundredths of a degree.
C14_TemperatureReport ==
    (rs.pc = "done" /\ rs.w.status = 200)
        => /\ Len(rs.w.body) >= 1
           /\ rs.w.body[1].k = "json"
           /\ LET report == rs.w.body[1].rep
              IN  /\ rs.wea.tempT = "number" => report.temp_C = rs.wea.temp
                  /\ 5 * (report.temp_F - 3200) = 9 * report.temp_C
                  /\ report.temp_K = report.temp_C + 27315
                  /\ report.city = rs.via.loc
                  /\ report.temp_C = 2500
                        => (report.temp_F = 7700 /\ report.temp_K = 29815)

C14_Witness ==
    /\ rs.pc = "done"
    /\ rs.w.status = 200
    /\ rs.wea.tempT = "number"
    /\ rs.wea.temp = 2500
    /\ rs.w.body[1].rep.temp_F = 7700
    /\ rs.w.body[1].rep.temp_K = 29815
    /\ rs.w.body[1].rep.city = rs.via.loc

\* A response that is one whole answer: a status, set by at most one
\* WriteHeader, and either one JSON document (status 200) or no JSON at all.
OneResponse(w) ==
    /\ w.status # 0
    /\ w.headerCalls <= 1
    /\ IF w.status = 200
       THEN Len(w.body) = 2 /\ w.body[1].k = "json" /\ w.body[2].k = "nl"
       ELSE \A i \in 1..Len(w.body) : w.body[i].k # "json"

\* The postal lookup succeeded: OK, an object without erro true, a locality.
LookupSucceeded(a) ==
    /\ a.got /\ ~a.err /\ a.status = 200 /\ a.kind = "object"
    /\ a.erro \in {"absent", "false"}
    /\ a.locT = "string" /\ a.loc # ""

\* C15: a request ends in one terminal response; nothing is written before
\* the handler's last step; each upstream is called at most once; the resolver
\* is called only for a valid postal code and the weather API only after a
\* successful postal lookup; an error response is followed by no further call
\* and no further output.
C15_LinearChain ==
    /\ gw.calls <= 1 /\ rs.viaCalls <= 1 /\ rs.weaCalls <= 1
    /\ gw.pc = "done" => OneResponse(gw.w)
    /\ rs.pc = "done" => OneResponse(rs.w)
    /\ gw.pc # "done" => gw.w = NewW
    /\ rs.pc # "done" => rs.w = NewW
    /\ gw.calls = 1 => EightDigits(gw.ZipCode)
    /\ rs.weaCalls = 1 => (rs.viaCalls = 1 /\ LookupSucceeded(rs.via))
    /\ (rs.pc = "done" /\ rs.via.got /\ ~LookupSucceeded(rs.via))
            => (rs.w.status # 200 /\ rs.weaCalls = 0 /\ ~rs.wea.got)
    /\ (gw.pc = "done" /\ gw.calls = 0) => (gw.w.status # 200 /\ rs.pc = "idle")

C15_Witness ==
    /\ gw.pc = "done"
    /\ gw.w.status = 404
    /\ gw.calls = 1
    /\ rs.from = "gateway"
    /\ rs.pc = "done"
    /\ rs.viaCalls = 1
    /\ rs.weaCalls = 0
    /\ rs.w.headerCalls = 1

=============================================================================
